---- MODULE Spec2Model ----
(***************************************************************************)
(* A model of sheet2json (src/src/index.ts): the value parser parseValue,  *)
(* the header validation validateHeaders, the converter convertToJson of   *)
(* both classes of the file (the TypeScript class sheet2json and the       *)
(* CommonJS class Sheet2Json), and the fetch-then-convert operation get.   *)
(*                                                                         *)
(* Text is a sequence of one-character strings, so that the regular        *)
(* expressions, trim() and toLowerCase() are computed character by         *)
(* character.  A number is a reduced fraction n/d, so that parseInt and    *)
(* parseFloat are computed from the digits.                                *)
(***************************************************************************)
EXTENDS Integers, Sequences, FiniteSets, TLC

VARIABLES
    value,            \* parseValue: the cell value passed in
    parsed,           \* parseValue: the value returned, once called
    parseCalled,      \* parseValue: whether the call has been made
    impl,             \* convertToJson: the class instantiated, "ts" or "cjs"
    spreadsheetData,  \* convertToJson: the AllSheetData object passed in
    original,         \* convertToJson: the object as it was before any call
    outcomes,         \* convertToJson: the outcome of each call made so far
    metaStatus,       \* get: the spreadsheets.get request
    sheetNames,       \* get: the titles listed by the metadata
    requests,         \* get: the state of each spreadsheets.values.get request
    responses,        \* get: what each request settled with
    allData,          \* get: the object filled by the per-sheet tasks
    rawStatus,        \* get: getRawSpreadsheetData pending, returned or thrown
    rawData,          \* get: the object getRawSpreadsheetData returned
    getStatus,        \* get: the promise of get: pending, resolved or rejected
    getOutcome        \* get: the outcome of convertToJson inside get

parseVars == <<value, parsed, parseCalled>>
convertVars == <<impl, spreadsheetData, original, outcomes>>
getVars == <<metaStatus, sheetNames, requests, responses, allData, rawStatus,
             rawData, getStatus, getOutcome>>
vars == <<parseVars, convertVars, getVars>>

(***************************************************************************)
(* Bounds of the model.                                                    *)
(***************************************************************************)
MaxStrLen == 3
MaxCols == 2
MaxDataRows == 2
MaxSheets == 2

(***************************************************************************)
(* Cell values: string | number | boolean | null, and undefined.           *)
(***************************************************************************)
Str(s) == [type |-> "string", s |-> s, n |-> 0, d |-> 1, b |-> FALSE]
RawNum(n, d) == [type |-> "number", s |-> <<>>, n |-> n, d |-> d, b |-> FALSE]
Bool(b) == [type |-> "boolean", s |-> <<>>, n |-> 0, d |-> 1, b |-> b]
Null == [type |-> "null", s |-> <<>>, n |-> 0, d |-> 1, b |-> FALSE]
Undefined == [type |-> "undefined", s |-> <<>>, n |-> 0, d |-> 1, b |-> FALSE]

RECURSIVE Gcd(_, _)
Gcd(a, b) == IF b = 0 THEN a ELSE Gcd(b, a % b)

\* The number n/d; equal numbers are equal values (0.50 = .5, 1.0 = 1).
Num(n, d) == LET g == Gcd(n, d) IN IF g = 0 THEN RawNum(0, 1) ELSE RawNum(n \div g, d \div g)

RECURSIVE Pow10(_)
Pow10(k) == IF k = 0 THEN 1 ELSE 10 * Pow10(k - 1)

DigitChars == <<"0", "1", "2", "3", "4", "5", "6", "7", "8", "9">>
IsDigit(c) == \E i \in 1..10 : DigitChars[i] = c
DigitVal(c) == CHOOSE v \in 0..9 : DigitChars[v + 1] = c

\* The length of the longest prefix of s matched by \d*.
RECURSIVE DigitsPrefixLen(_)
DigitsPrefixLen(s) ==
    IF s = <<>> \/ ~IsDigit(Head(s)) THEN 0 ELSE 1 + DigitsPrefixLen(Tail(s))

\* /^\d+$/.test(s)
IsIntText(s) == Len(s) >= 1 /\ DigitsPrefixLen(s) = Len(s)

\* A faulty variant, /^\d*\.\d*$/: the digits after the point made optional.
IsFloatTextLoose(s) ==
    LET k == DigitsPrefixLen(s) IN
    /\ k < Len(s)
    /\ s[k + 1] = "."
    /\ DigitsPrefixLen(SubSeq(s, k + 2, Len(s))) = Len(s) - (k + 1)

\* /^\d*\.\d+$/.test(s)
IsFloatText(s) ==
    LET k == DigitsPrefixLen(s) IN
    /\ k < Len(s)
    /\ s[k + 1] = "."
    /\ Len(s) - (k + 1) >= 1
    /\ DigitsPrefixLen(SubSeq(s, k + 2, Len(s))) = Len(s) - (k + 1)

\* The digits of s read left to right in base 10.
RECURSIVE DigitsValue(_, _)
DigitsValue(s, acc) ==
    IF s = <<>> THEN acc ELSE DigitsValue(Tail(s), acc * 10 + DigitVal(Head(s)))

\* parseInt(s, 10) of a text of digits.
parseInt(s) == Num(DigitsValue(s, 0), 1)

\* parseFloat(s) of a text of digits, a point and digits.
parseFloat(s) ==
    LET k == DigitsPrefixLen(s)
        frac == SubSeq(s, k + 2, Len(s))
        scale == Pow10(Len(frac))
    IN Num(DigitsValue(SubSeq(s, 1, k), 0) * scale + DigitsValue(frac, 0), scale)

UpperChars == <<"A", "E", "F", "L", "R", "S", "T", "U">>
LowerChars == <<"a", "e", "f", "l", "r", "s", "t", "u">>
toLowerChar(c) ==
    IF \E i \in 1..Len(UpperChars) : UpperChars[i] = c
    THEN LowerChars[CHOOSE i \in 1..Len(UpperChars) : UpperChars[i] = c]
    ELSE c
toLowerCase(s) == [i \in 1..Len(s) |-> toLowerChar(s[i])]

TextTrue == <<"t", "r", "u", "e">>
TextFalse == <<"f", "a", "l", "s", "e">>

parseValue(v) ==
    IF v.type = "null" \/ v.type = "undefined" THEN Null
    ELSE IF v.type = "string" THEN
        IF IsIntText(v.s) THEN parseInt(v.s)
        ELSE IF IsFloatText(v.s) THEN parseFloat(v.s)
        ELSE IF toLowerCase(v.s) = TextTrue THEN Bool(TRUE)
        ELSE IF toLowerCase(v.s) = TextFalse THEN Bool(FALSE)
        ELSE v
    ELSE v

(***************************************************************************)
(* The cell values parseValue is applied to.                               *)
(***************************************************************************)
ParseChars == {"0", "5", "7", ".", "-", " ", "e"}

RECURSIVE TextsUpTo(_, _)
TextsUpTo(chars, k) ==
    IF k = 0 THEN {<<>>}
    ELSE LET shorter == TextsUpTo(chars, k - 1) IN
         shorter \cup {Append(s, c) : s \in shorter, c \in chars}

LiteralTexts ==
    { <<"4", "2">>, <<"3", ".", "1", "4">>, <<"0", "0", "7">>, <<"1", "e", "5">>,
      <<"1", ",", "0", "0", "0">>, <<"+", "5">>, <<"t", "r", "u", "e">>,
      <<"T", "R", "U", "E">>, <<"T", "r", "u", "e">>, <<"f", "a", "l", "s", "e">>,
      <<"F", "A", "L", "S", "E">>, <<"t", "r", "u", "e", " ">>,
      <<"A", "l", "i", "c", "e">>, <<"1", "2", ".", "5", "0">>, <<"1", ".", "0">> }

ParseInputs ==
    {Str(s) : s \in TextsUpTo(ParseChars, MaxStrLen) \cup LiteralTexts}
    \cup {Null, Undefined, Bool(TRUE), Bool(FALSE), Num(42, 1), Num(0, 1), Num(1, 2)}

(***************************************************************************)
(* Rows, grids and the AllSheetData object.  A row or a grid that is not   *)
(* an array (null, undefined) has isArray = FALSE; an AllSheetData that is *)
(* null or not an object has isObject = FALSE.  The entries of an object   *)
(* are in the order for..in visits them.                                   *)
(***************************************************************************)
Row(cells) == [isArray |-> TRUE, cells |-> cells]
NotARow == [isArray |-> FALSE, cells |-> <<>>]
Grid(rows) == [isArray |-> TRUE, rows |-> rows]
NotAGrid == [isArray |-> FALSE, rows |-> <<>>]
EmptyGrid == Grid(<<>>)
Entry(name, data) == [name |-> name, data |-> data]
SheetSet(entries) == [isObject |-> TRUE, entries |-> entries]
NotAnObject == [isObject |-> FALSE, entries |-> <<>>]

WhiteSpace == {" "}

\* String.prototype.trim
RECURSIVE trimStart(_)
trimStart(s) == IF s # <<>> /\ Head(s) \in WhiteSpace THEN trimStart(Tail(s)) ELSE s
RECURSIVE trimEnd(_)
trimEnd(s) ==
    IF s # <<>> /\ s[Len(s)] \in WhiteSpace THEN trimEnd(SubSeq(s, 1, Len(s) - 1)) ELSE s
trim(s) == trimEnd(trimStart(s))

\* A faulty variant: the trimmed text as the key of the Set of seen headers.
SeenKeyTrimmed(header) == trim(header.s)

\* The value validateHeaders adds to, and looks up in, the Set of seen headers.
SeenKey(header) == header.s

\* The for..of loop of validateHeaders over the cells from position i on.
RECURSIVE validateLoop(_, _, _)
validateLoop(cells, i, seen) ==
    IF i > Len(cells) THEN TRUE
    ELSE IF cells[i].type # "string" \/ trim(cells[i].s) = <<>> THEN FALSE
    ELSE IF SeenKey(cells[i]) \in seen THEN FALSE
    ELSE validateLoop(cells, i + 1, seen \cup {SeenKey(cells[i])})

validateHeaders(headers) ==
    IF ~headers.isArray THEN FALSE ELSE validateLoop(headers.cells, 1, {})

\* A faulty variant: a sheet of one row is validated as well.
HasHeaderRow(data) == data.isArray /\ Len(data.rows) >= 1

\* Array.isArray(data) && data.length >= 2
HasHeaderAndData(data) == data.isArray /\ Len(data.rows) >= 2

\* A faulty variant: headers taken off the grid with data.shift().
DataAfterShift(data) == [data EXCEPT !.rows = Tail(data.rows)]

\* The grid after "const [headers, ...rows] = data": destructuring copies.
DataAfterDestructure(data) == data

\* headers[index], index counted from 1; undefined beyond the header row.
headerAt(headers, index) ==
    IF index <= Len(headers.cells) THEN headers.cells[index] ELSE Undefined

TextString == <<"s", "t", "r", "i", "n", "g">>

\* class sheet2json: headers[index] === "string"
sheet2json_headerCheck(headers, index) == headerAt(headers, index) = Str(TextString)

\* class Sheet2Json: typeof headers[index] === "string"
Sheet2Json_headerCheck(headers, index) == headerAt(headers, index).type = "string"

headerCheck(cls, headers, index) ==
    IF cls = "ts" THEN sheet2json_headerCheck(headers, index)
    ELSE Sheet2Json_headerCheck(headers, index)

\* A Record: a function from header text to cell value.
EmptyObj == [k \in {} |-> Null]
SetKey(obj, key, v) == [k \in DOMAIN obj \cup {key} |-> IF k = key THEN v ELSE obj[k]]

\* row.reduce((obj, value, index) => ..., {}) from position index on.
RECURSIVE rowReduce(_, _, _, _, _)
rowReduce(cls, headers, cells, index, obj) ==
    IF index > Len(cells) THEN obj
    ELSE rowReduce(cls, headers, cells, index + 1,
                   IF headerCheck(cls, headers, index)
                   THEN SetKey(obj, headerAt(headers, index).s, parseValue(cells[index]))
                   ELSE obj)

\* rows.map((row) => row.reduce(...))
rowsMap(cls, headers, rows) ==
    [r \in 1..Len(rows) |-> rowReduce(cls, headers, rows[r].cells, 1, EmptyObj)]

\* The outcome of a call: a JsonSheetData returned, or an Error thrown that
\* names a sheet.  visited counts the sheets the loop destructured.
Returned(result, visited) ==
    [threw |-> FALSE, sheet |-> "", result |-> result, visited |-> visited]
Threw(sheet, visited) ==
    [threw |-> TRUE, sheet |-> sheet, result |-> <<>>, visited |-> visited]
EmptyResult == [k \in {} |-> <<>>]

\* The for..in loop of convertToJson from entry i on.
RECURSIVE convertLoop(_, _, _, _)
convertLoop(cls, entries, i, result) ==
    IF i > Len(entries) THEN Returned(result, Len(entries))
    ELSE LET sheet == entries[i].name
             data == entries[i].data
         IN IF HasHeaderAndData(data)
            THEN LET headers == Head(data.rows)
                     rows == Tail(data.rows)
                 IN IF ~validateHeaders(headers) THEN Threw(sheet, i)
                    ELSE convertLoop(cls, entries, i + 1,
                                     SetKey(result, sheet, rowsMap(cls, headers, rows)))
            ELSE convertLoop(cls, entries, i + 1, SetKey(result, sheet, <<>>))

convertToJson(cls, data) ==
    IF ~data.isObject \/ Len(data.entries) = 0 THEN Returned(EmptyResult, 0)
    ELSE convertLoop(cls, data.entries, 1, EmptyResult)

sheet2json_convertToJson(data) == convertToJson("ts", data)
Sheet2Json_convertToJson(data) == convertToJson("cjs", data)

\* The AllSheetData object after a call that destructured its first `visited` grids.
dataAfterCall(data, visited) ==
    [data EXCEPT !.entries =
        [i \in 1..Len(data.entries) |->
            IF i <= visited /\ HasHeaderAndData(data.entries[i].data)
            THEN Entry(data.entries[i].name, DataAfterDestructure(data.entries[i].data))
            ELSE data.entries[i]]]

(***************************************************************************)
(* The values of the variables of an operation that is not running.        *)
(***************************************************************************)
ParseIdle == value = Null /\ parsed = Undefined /\ parseCalled = FALSE
ConvertIdle ==
    /\ impl = "ts"
    /\ spreadsheetData = NotAnObject
    /\ original = NotAnObject
    /\ outcomes = <<>>
GetIdle ==
    /\ metaStatus = "idle"
    /\ sheetNames = <<>>
    /\ requests = <<>>
    /\ responses = <<>>
    /\ allData = <<>>
    /\ rawStatus = "idle"
    /\ rawData = <<>>
    /\ getStatus = "idle"
    /\ getOutcome = Returned(EmptyResult, 0)

(***************************************************************************)
(* parseValue applied to one cell value.                                   *)
(***************************************************************************)
InitParse ==
    /\ value \in ParseInputs
    /\ parsed = Undefined
    /\ parseCalled = FALSE
    /\ ConvertIdle
    /\ GetIdle

CallParseValue ==
    /\ ~parseCalled
    /\ parsed' = parseValue(value)
    /\ parseCalled' = TRUE
    /\ UNCHANGED <<value, convertVars, getVars>>

NextParse == CallParseValue

SpecParse == InitParse /\ [][NextParse]_vars

(***************************************************************************)
(* convertToJson called, up to twice, on one AllSheetData object by an     *)
(* instance of either class.                                               *)
(***************************************************************************)
TextId == <<"i", "d">>
TextIdPadded == <<" ", "i", "d">>
Text30 == <<"3", "0">>
TextX == <<"x">>

HeaderCells ==
    {Str(TextId), Str(TextIdPadded), Str(TextString), Str(<<" ">>), Num(1, 1), Null}

RECURSIVE SeqsUpTo(_, _)
SeqsUpTo(S, k) ==
    IF k = 0 THEN {<<>>}
    ELSE LET shorter == SeqsUpTo(S, k - 1) IN
         shorter \cup {Append(s, x) : s \in shorter, x \in S}

HeaderRows == {NotARow} \cup {Row(cells) : cells \in SeqsUpTo(HeaderCells, MaxCols)}

\* Data rows shorter than, as long as and longer than the header rows.
DataRows ==
    { Row(<<Str(Text30)>>), Row(<<Null, Str(TextX)>>),
      Row(<<Str(TextX), Str(Text30), Str(TextTrue)>>) }

DataBlocks == SeqsUpTo(DataRows, MaxDataRows)

\* A grid: not an array, an array of no row, or a header row and data rows.
GridKinds == {"notArray", "noRows", "rows"}
GridOf(kind, header, rows) ==
    IF kind = "notArray" THEN NotAGrid
    ELSE IF kind = "noRows" THEN EmptyGrid
    ELSE Grid(<<header>> \o rows)

\* The grids of the other sheet of a two-sheet object.
OtherGrids ==
    { Grid(<<Row(<<Str(TextId), Str(TextId)>>)>>),
      Grid(<<Row(<<Str(TextId)>>), Row(<<Str(Text30)>>)>>),
      Grid(<<Row(<<Str(TextId), Str(TextId)>>), Row(<<Str(Text30)>>)>>) }

\* The object passed in: null, {}, one sheet, or two sheets in either order.
InputShapes == {"null", "noSheets", "one", "first", "second"}
ConvertInput(shape, g, o) ==
    IF shape = "null" THEN NotAnObject
    ELSE IF shape = "noSheets" THEN SheetSet(<<>>)
    ELSE IF shape = "one" THEN SheetSet(<<Entry("Sheet1", g)>>)
    ELSE IF shape = "first" THEN SheetSet(<<Entry("Sheet1", g), Entry("Sheet2", o)>>)
    ELSE SheetSet(<<Entry("Sheet1", o), Entry("Sheet2", g)>>)

InitConvert ==
    /\ impl \in {"ts", "cjs"}
    /\ \E shape \in InputShapes, kind \in GridKinds, header \in HeaderRows,
          rows \in DataBlocks, o \in OtherGrids :
        spreadsheetData = ConvertInput(shape, GridOf(kind, header, rows), o)
    /\ original = spreadsheetData
    /\ outcomes = <<>>
    /\ ParseIdle
    /\ GetIdle

CallConvertToJson ==
    /\ Len(outcomes) < 2
    /\ LET out == convertToJson(impl, spreadsheetData) IN
        /\ outcomes' = Append(outcomes, out)
        /\ spreadsheetData' = dataAfterCall(spreadsheetData, out.visited)
    /\ UNCHANGED <<impl, original, parseVars, getVars>>

NextConvert == CallConvertToJson

SpecConvert == InitConvert /\ [][NextConvert]_vars

(***************************************************************************)
(* get: getRawSpreadsheetData, then convertToJson.  Each action is one     *)
(* response of the Sheets API together with the chain of continuations it  *)
(* wakes, which JavaScript runs to completion before the next response.    *)
(***************************************************************************)
SheetTitles == {"Sheet1", "Sheet2", "Sheet3"}

\* metadata.data.sheets: undefined, or sheets with distinct titles.
NoSheets == [defined |-> FALSE, titles |-> <<>>]
Sheets(titles) == [defined |-> TRUE, titles |-> titles]
MetadataSheets ==
    {NoSheets}
    \cup {Sheets(titles) : titles \in
            {s \in SeqsUpTo(SheetTitles, MaxSheets) :
                \A i, j \in 1..Len(s) : i # j => s[i] # s[j]}}

\* What spreadsheets.values.get settles with: a rejection, or response.data.values,
\* which is undefined when the sheet holds no data.
Rejection == [ok |-> FALSE, values |-> NotAGrid]
Values(grid) == [ok |-> TRUE, values |-> grid]
ResponseGrids ==
    { NotAGrid,
      Grid(<<Row(<<Str(TextId)>>)>>),
      Grid(<<Row(<<Str(TextId)>>), Row(<<Str(Text30)>>)>>),
      Grid(<<Row(<<Str(TextId), Str(TextId)>>), Row(<<Str(Text30)>>)>>) }
Responses == {Rejection} \cup {Values(g) : g \in ResponseGrids}

\* metadata.data.sheets?.map((sheet) => sheet.properties?.title) || []
titlesOf(sheets) == IF sheets.defined THEN sheets.titles ELSE <<>>

\* A faulty variant: the sheets fetched one after the other, only the first one launched.
launchedFirstOnly(names) == {i \in 1..Len(names) : i = 1}

\* The requests launched by sheetNames.map(async ...) before Promise.all is awaited:
\* each async function runs up to its first await, which follows the request.
launchedByMap(names) == 1..Len(names)

\* A faulty variant: response.data.values stored as it is.
valuesAsGiven(values) == values

\* response.data.values || []
valuesOrEmpty(values) == IF values.isArray THEN values ELSE EmptyGrid

\* A faulty variant: Promise.allSettled, which waits for all and rejects for none.
promiseAllSettled(reqs) ==
    IF \A i \in 1..Len(reqs) : reqs[i] \in {"fulfilled", "rejected"} THEN "fulfilled"
    ELSE "pending"

\* Promise.all over the per-sheet tasks.
promiseAll(reqs) ==
    IF \E i \in 1..Len(reqs) : reqs[i] = "rejected" THEN "rejected"
    ELSE IF \A i \in 1..Len(reqs) : reqs[i] = "fulfilled" THEN "fulfilled"
    ELSE "pending"

\* What follows the await of Promise.all in getRawSpreadsheetData and the await in
\* get, given the tasks and allData as the current step leaves them.
Continue(reqs, data) ==
    IF rawStatus = "pending" /\ promiseAll(reqs) = "rejected" THEN
        /\ rawStatus' = "thrown"
        /\ getStatus' = "rejected"
        /\ UNCHANGED <<rawData, getOutcome>>
    ELSE IF rawStatus = "pending" /\ promiseAll(reqs) = "fulfilled" THEN
        LET out == sheet2json_convertToJson(SheetSet(data)) IN
        /\ rawStatus' = "returned"
        /\ rawData' = data
        /\ getOutcome' = out
        /\ getStatus' = IF out.threw THEN "rejected" ELSE "resolved"
    ELSE UNCHANGED <<rawStatus, rawData, getStatus, getOutcome>>

Init ==
    /\ metaStatus = "pending"
    /\ sheetNames = <<>>
    /\ requests = <<>>
    /\ responses = <<>>
    /\ allData = <<>>
    /\ rawStatus = "pending"
    /\ rawData = <<>>
    /\ getStatus = "pending"
    /\ getOutcome = Returned(EmptyResult, 0)
    /\ ParseIdle
    /\ ConvertIdle

\* spreadsheets.get rejects: both catch blocks rethrow.
MetadataRejects ==
    /\ metaStatus = "pending"
    /\ metaStatus' = "rejected"
    /\ rawStatus' = "thrown"
    /\ getStatus' = "rejected"
    /\ UNCHANGED <<sheetNames, requests, responses, allData, rawData, getOutcome>>
    /\ UNCHANGED <<parseVars, convertVars>>

\* spreadsheets.get resolves: the titles are read and the per-sheet tasks started.
MetadataResolves ==
    /\ metaStatus = "pending"
    /\ \E sheets \in MetadataSheets :
        LET names == titlesOf(sheets)
            reqs == [i \in 1..Len(names) |->
                        IF i \in launchedByMap(names) THEN "pending" ELSE "notLaunched"]
        IN /\ metaStatus' = "resolved"
           /\ sheetNames' = names
           /\ requests' = reqs
           /\ responses' = [i \in 1..Len(names) |-> Rejection]
           /\ allData' = <<>>
           /\ Continue(reqs, <<>>)
    /\ UNCHANGED <<parseVars, convertVars>>

\* spreadsheets.values.get of sheet i settles and its task resumes.
SheetResponds ==
    /\ \E i \in 1..Len(requests), resp \in Responses :
        /\ requests[i] = "pending"
        /\ LET reqs == [requests EXCEPT ![i] = IF resp.ok THEN "fulfilled" ELSE "rejected"]
               data == IF resp.ok
                       THEN Append(allData, Entry(sheetNames[i], valuesOrEmpty(resp.values)))
                       ELSE allData
           IN /\ requests' = reqs
              /\ responses' = [responses EXCEPT ![i] = resp]
              /\ allData' = data
              /\ Continue(reqs, data)
    /\ UNCHANGED <<metaStatus, sheetNames, parseVars, convertVars>>

Next == MetadataRejects \/ MetadataResolves \/ SheetResponds

Spec == Init /\ [][Next]_vars

(***************************************************************************)
(* Properties of parseValue, stated on the text itself.                    *)
(***************************************************************************)
AsciiDigits == {"0", "1", "2", "3", "4", "5", "6", "7", "8", "9"}
OnlyDigits(s) == \A i \in 1..Len(s) : s[i] \in AsciiDigits

\* The value of a text of digits: the sum of digit * 10^place.
RECURSIVE PlaceValue(_, _)
PlaceValue(s, i) ==
    IF i > Len(s) THEN 0
    ELSE DigitVal(s[i]) * Pow10(Len(s) - i) + PlaceValue(s, i + 1)

\* The places of a point that has only digits before it and at least one digit,
\* and only digits, after it.
PointPlaces(s) ==
    {p \in 1..(Len(s) - 1) : s[p] = "." /\ \A i \in 1..Len(s) : i # p => s[i] \in AsciiDigits}

CasePairs ==
    { <<"t", "T">>, <<"r", "R">>, <<"u", "U">>, <<"e", "E">>, <<"f", "F">>,
      <<"a", "A">>, <<"l", "L">>, <<"s", "S">> }
SameIgnoringCase(s, word) ==
    /\ Len(s) = Len(word)
    /\ \A i \in 1..Len(word) : s[i] = word[i] \/ <<word[i], s[i]>> \in CasePairs

\* C5: parseValue gives null for null and undefined; the base-10 integer for a text
\* of one or more digits; the number for a text of optional digits, a point and one
\* or more digits; the boolean for "true" and "false" in any case; and every other
\* value unchanged.
C5_ParseValueRules ==
    parseCalled =>
        IF value.type \in {"null", "undefined"} THEN parsed = Null
        ELSE IF value.type # "string" THEN parsed = value
        ELSE IF Len(value.s) >= 1 /\ OnlyDigits(value.s) THEN
            parsed.type = "number" /\ parsed.d = 1 /\ parsed.n = PlaceValue(value.s, 1)
        ELSE IF PointPlaces(value.s) # {} THEN
            LET p == CHOOSE q \in PointPlaces(value.s) : TRUE
                digits == SubSeq(value.s, 1, p - 1) \o SubSeq(value.s, p + 1, Len(value.s))
            IN /\ parsed.type = "number"
               /\ parsed.d >= 1
               /\ parsed.n * Pow10(Len(value.s) - p) = parsed.d * PlaceValue(digits, 1)
        ELSE IF SameIgnoringCase(value.s, <<"t", "r", "u", "e">>) THEN parsed = Bool(TRUE)
        ELSE IF SameIgnoringCase(value.s, <<"f", "a", "l", "s", "e">>) THEN parsed = Bool(FALSE)
        ELSE parsed = value

\* ".5" has been parsed to the number 1/2.
C5_Witness ==
    parseCalled /\ value = Str(<<".", "5">>) /\ parsed = RawNum(1, 2)

(***************************************************************************)
(* Properties of convertToJson, stated on the object passed in.            *)
(***************************************************************************)
Blank(s) == \A i \in 1..Len(s) : s[i] = " "

\* A header row the specification calls invalid.
BadHeader(h) ==
    \/ ~h.isArray
    \/ \E i \in 1..Len(h.cells) : h.cells[i].type # "string"
    \/ \E i \in 1..Len(h.cells) : h.cells[i].type = "string" /\ Blank(h.cells[i].s)
    \/ \E i, j \in 1..Len(h.cells) : i # j /\ h.cells[i] = h.cells[j]

RowCount(data) == IF data.isArray THEN Len(data.rows) ELSE 0
Offending(data) == RowCount(data) >= 2 /\ BadHeader(data.rows[1])
OffendingEntries == {i \in 1..Len(original.entries) : Offending(original.entries[i].data)}
FirstOffending == CHOOSE i \in OffendingEntries : \A j \in OffendingEntries : i <= j

\* C2: when a sheet of two or more rows has an invalid header row, convertToJson
\* throws an error naming the first such sheet and returns nothing, whatever the
\* other sheets hold; otherwise it does not throw, so that headers differing only by
\* surrounding whitespace are accepted.
C2_InvalidHeadersAbort ==
    \A k \in 1..Len(outcomes) :
        IF OffendingEntries # {}
        THEN /\ outcomes[k].threw
             /\ outcomes[k].result = <<>>
             /\ outcomes[k].sheet = original.entries[FirstOffending].name
        ELSE ~outcomes[k].threw

\* The second sheet has an invalid header and the first, already converted, is valid.
C2_Witness ==
    /\ Len(outcomes) >= 1
    /\ Len(original.entries) = 2
    /\ RowCount(original.entries[1].data) >= 2
    /\ ~Offending(original.entries[1].data)
    /\ outcomes[1].threw
    /\ outcomes[1].sheet = "Sheet2"

\* C4: a sheet of no row or one row is mapped to the empty sequence, and no error
\* names it, whatever its row holds.
C4_ShortSheetsAreEmpty ==
    \A k \in 1..Len(outcomes) :
        \A i \in 1..Len(original.entries) :
            LET e == original.entries[i] IN
            (e.data.isArray /\ Len(e.data.rows) <= 1) =>
                IF outcomes[k].threw THEN outcomes[k].sheet # e.name
                ELSE e.name \in DOMAIN outcomes[k].result /\ outcomes[k].result[e.name] = <<>>

\* A sheet whose only row is an invalid header row has been mapped to the empty sequence.
C4_Witness ==
    /\ Len(outcomes) >= 1
    /\ ~outcomes[1].threw
    /\ \E i \in 1..Len(original.entries) :
        LET e == original.entries[i] IN
        /\ e.data.isArray
        /\ Len(e.data.rows) = 1
        /\ BadHeader(e.data.rows[1])
        /\ outcomes[1].result[e.name] = <<>>

Min(a, b) == IF a <= b THEN a ELSE b

\* The Records the specification gives for a header row and data rows.
ExpectedRecords(header, rows) ==
    [r \in 1..Len(rows) |->
        LET present == 1..Min(Len(header.cells), Len(rows[r].cells)) IN
        [key \in {header.cells[i].s : i \in present} |->
            parseValue(rows[r].cells[CHOOSE i \in present : header.cells[i].s = key])]]

ValidInput(data) ==
    /\ data.isObject
    /\ Len(data.entries) >= 1
    /\ \A i \in 1..Len(data.entries) :
        RowCount(data.entries[i].data) >= 2 /\ ~BadHeader(data.entries[i].data.rows[1])

\* C1: for an object whose sheets all have two or more rows and a valid header row,
\* convertToJson returns, for each sheet, one Record per data row in order, whose
\* keys are the headers at the positions the row has and whose values are the
\* parsed cells.
C1_RecordsPerDataRow ==
    \A k \in 1..Len(outcomes) :
        ValidInput(original) =>
            /\ ~outcomes[k].threw
            /\ \A i \in 1..Len(original.entries) :
                LET e == original.entries[i] IN
                /\ e.name \in DOMAIN outcomes[k].result
                /\ outcomes[k].result[e.name]
                     = ExpectedRecords(Head(e.data.rows), Tail(e.data.rows))

\* C9: for every sheet that passed validateHeaders, the header check of the
\* row-to-record loop is true at every position of the header row, and every cell
\* at such a position is emitted under the header's text.
C9_HeaderCheckAlwaysTrue ==
    \A k \in 1..Len(outcomes) :
        \A i \in 1..Len(original.entries) :
            LET e == original.entries[i] IN
            (RowCount(e.data) >= 2 /\ i <= outcomes[k].visited
                    /\ ~(outcomes[k].threw /\ i = outcomes[k].visited)) =>
                /\ \A p \in 1..Len(e.data.rows[1].cells) :
                        headerCheck(impl, e.data.rows[1], p)
                /\ ~outcomes[k].threw =>
                    \A r \in 2..Len(e.data.rows) :
                        \A p \in 1..Min(Len(e.data.rows[1].cells), Len(e.data.rows[r].cells)) :
                            e.data.rows[1].cells[p].s \in DOMAIN outcomes[k].result[e.name][r - 1]

\* C10: the convertToJson of class sheet2json and that of class Sheet2Json either
\* both throw the same error or both return equal results.
C10_ClassesEquivalent ==
    \A k \in 1..Len(outcomes) :
        LET other == IF impl = "ts" THEN Sheet2Json_convertToJson(original)
                     ELSE sheet2json_convertToJson(original)
        IN /\ outcomes[k].threw = other.threw
           /\ outcomes[k].sheet = other.sheet
           /\ outcomes[k].result = other.result

(***************************************************************************)
(* Properties of get.                                                      *)
(***************************************************************************)
Settled(i) == requests[i] \in {"fulfilled", "rejected"}
TitleSet == {sheetNames[i] : i \in 1..Len(sheetNames)}

\* C3: once the metadata request or a sheet's retrieval has failed, get is rejected;
\* get resolves only with a RecordSet that covers all the sheets, all retrieved.
C3_NoPartialResult ==
    /\ (metaStatus = "rejected" \/ \E i \in 1..Len(requests) : requests[i] = "rejected")
            => getStatus = "rejected"
    /\ getStatus = "resolved" =>
        /\ metaStatus = "resolved"
        /\ \A i \in 1..Len(requests) : requests[i] = "fulfilled"
        /\ ~getOutcome.threw
        /\ DOMAIN getOutcome.result = TitleSet

\* One sheet was retrieved, another failed, and get is rejected.
C3_Witness ==
    /\ getStatus = "rejected"
    /\ \E i, j \in 1..Len(requests) : requests[i] = "fulfilled" /\ requests[j] = "rejected"

AllLaunchedBeforeAnySettles ==
    (\E i \in 1..Len(requests) : Settled(i)) =>
        \A j \in 1..Len(requests) : requests[j] # "notLaunched"

\* C7 as stated: all retrievals are launched before any is awaited, and get neither
\* resolves nor rejects until every launched retrieval has settled.
C7_CompletesAfterAllSettle ==
    /\ AllLaunchedBeforeAnySettles
    /\ getStatus \in {"resolved", "rejected"} => \A i \in 1..Len(requests) : Settled(i)

\* C7 as amended: all retrievals are launched before any is awaited; get does not
\* resolve until every retrieval has been fulfilled; it is rejected as soon as one
\* retrieval is rejected, whatever the others are doing.
C7_ResolvesAfterAllSettle ==
    /\ AllLaunchedBeforeAnySettles
    /\ getStatus = "resolved" => \A i \in 1..Len(requests) : requests[i] = "fulfilled"
    /\ (\E i \in 1..Len(requests) : requests[i] = "rejected") => getStatus = "rejected"
    /\ (getStatus = "rejected" /\ metaStatus = "resolved") =>
        \/ \E i \in 1..Len(requests) : requests[i] = "rejected"
        \/ (\A i \in 1..Len(requests) : requests[i] = "fulfilled") /\ getOutcome.threw

\* get is rejected while a launched retrieval is still pending.
C7_Witness ==
    /\ getStatus = "rejected"
    /\ \E i, j \in 1..Len(requests) : requests[i] = "rejected" /\ requests[j] = "pending"

\* C8: when the metadata request and every retrieval succeed, getRawSpreadsheetData
\* returns an object with one key per listed title, mapped to the grid retrieved for
\* that title, or to the empty grid when there were no values, whatever the order of
\* completion.
C8_RawDataComplete ==
    /\ (metaStatus = "resolved" /\ \A i \in 1..Len(requests) : requests[i] = "fulfilled")
            => rawStatus = "returned"
    /\ rawStatus = "returned" =>
        /\ Len(rawData) = Len(sheetNames)
        /\ {rawData[j].name : j \in 1..Len(rawData)} = TitleSet
        /\ \A i \in 1..Len(sheetNames) :
            \E j \in 1..Len(rawData) :
                /\ rawData[j].name = sheetNames[i]
                /\ rawData[j].data.isArray
                /\ rawData[j].data = IF responses[i].values.isArray
                                     THEN responses[i].values
                                     ELSE EmptyGrid

\* Two sheets were retrieved in the order opposite to the listing, one without values.
C8_Witness ==
    /\ rawStatus = "returned"
    /\ Len(sheetNames) = 2
    /\ rawData[1].name = sheetNames[2]
    /\ \E i \in 1..2 : ~responses[i].values.isArray

====
